---- MODULE Spec2Model ----
(***************************************************************************)
(* Model of excel_processor.py: a one-shot batch script that looks up five *)
(* figures in a source worksheet by text labels and writes them into a     *)
(* template worksheet, which is then saved under a new file name.          *)
(*                                                                         *)
(* Representation                                                          *)
(*  - a cell value is a record: None, a string or a number;                *)
(*  - a string is a sequence of tokens; every label of the script is a     *)
(*    fixed sequence of tokens, cut so that the substring relations        *)
(*    between the script's labels are those of the real texts              *)
(*    ("当年" in "当年新增" in "当年新增客户期末流通净资产（万元）", ...);           *)
(*    Python's `in` is substring search over the tokens;                   *)
(*  - a number is an integer count of thousandths, so round(x, 2) is       *)
(*    rounding to a multiple of 10;                                        *)
(*  - a worksheet is a record: value (rows of cells), style (rows of       *)
(*    cell styles) and merged (the merged ranges, in the order in which    *)
(*    ws.merged_cells.ranges iterates);                                    *)
(*  - None for a row or column index is 0 (the script only tests such      *)
(*    indices for truth, and real indices start at 1).                     *)
(***************************************************************************)
EXTENDS Integers, Sequences, FiniteSets, TLC

VARIABLES pc, task, fs, source_ws, template_ws, actual_target_col,
          merged_range, label_cell, found, template_row,
          results_log, write_log, stdout, outcome, call, ret

vars == <<pc, task, fs, source_ws, template_ws, actual_target_col,
          merged_range, label_cell, found, template_row,
          results_log, write_log, stdout, outcome, call, ret>>

mainVars == <<pc, task, fs, source_ws, template_ws, actual_target_col,
              merged_range, label_cell, found, template_row,
              results_log, write_log, stdout, outcome>>

(***************************************************************************)
(* Cell values                                                             *)
(***************************************************************************)
None == [t |-> "none", s |-> <<>>, n |-> 0]

Str(s) == [t |-> "str", s |-> s, n |-> 0]

Num(n) == [t |-> "num", s |-> <<>>, n |-> n]

\* Python truth value of a cell value: None, "" and 0 are false.
Truthy(v) == \/ (v.t = "str" /\ v.s # <<>>)
             \/ (v.t = "num" /\ v.n # 0)

\* isinstance(v, str)
IsStr(v) == v.t = "str"

\* isinstance(v, (int, float))
IsNumber(v) == v.t = "num"

\* Python's `sub in s` on strings.
Contains(sub, s) ==
    \E i \in 0..(Len(s) - Len(sub)) : SubSeq(s, i + 1, i + Len(sub)) = sub

\* str + str
Concat(a, b) == a \o b

SPACE == " "

RECURSIVE LStrip(_)
LStrip(s) == IF s # <<>> /\ Head(s) = SPACE THEN LStrip(Tail(s)) ELSE s

RECURSIVE RStrip(_)
RStrip(s) == IF s # <<>> /\ s[Len(s)] = SPACE
             THEN RStrip(SubSeq(s, 1, Len(s) - 1)) ELSE s

\* str.strip()
Strip(s) == RStrip(LStrip(s))

RECURSIVE RemoveAll(_, _)
\* str.replace(old, '') for a one-token `old`
RemoveAll(s, tok) ==
    IF s = <<>> THEN <<>>
    ELSE IF Head(s) = tok THEN RemoveAll(Tail(s), tok)
    ELSE <<Head(s)>> \o RemoveAll(Tail(s), tok)

\* the cell test shared by the three text searches:
\* `v and isinstance(v, str) and text in v`
CellHasText(v, text) == Truthy(v) /\ IsStr(v) /\ Contains(text, v.s)

\* round(x, 2) replaced by cutting off the third decimal
Round2_truncating(n) == n - (n % 10)

(***************************************************************************)
(* round(x, 2) on thousandths: to the nearest hundredth, an exact tie      *)
(* going to the even hundredth.                                            *)
(***************************************************************************)
Round2(n) ==
    LET r == n % 10
        lo == n - r
    IN  IF r < 5 THEN lo
        ELSE IF r > 5 THEN lo + 10
        ELSE IF (lo \div 10) % 2 = 0 THEN lo ELSE lo + 10

(***************************************************************************)
(* Configuration and the texts of the script                               *)
(***************************************************************************)
EXT == ".xlsx"

SOURCE_FILE == <<"ribao", EXT>>

TEMPLATE_FILE == <<"202504-lihui-muban", EXT>>

TEMPLATE_CATEGORY_COL == 3

TARGET_COLUMN_HEADER == <<"bennian-leiji">>

HEADER_ROW == 2

\* max_rows_to_check=10, the default the script always uses
MAX_ROWS_TO_CHECK == 10

\* "+ 5" in every max_row=min(range.max_row + 5, source_ws.max_row)
SEARCH_BELOW == 5

\* the five metrics, in the order the script processes them
Tasks == 1..5

XIAOJI == <<"xiaoji(han-guji-ganggutong-deng)">>

DANGRI == <<"dangri-yue(yiyuan)">>

RIJUN == <<"quannian-leiji-rijun-yue(yiyuan)">>

YOUXIAO == <<"youxiao", "kehu", "shu(hu)">>

LIUTONG == <<"dangnian", "xinzeng", "kehu", "qimo-liutong-jingzichan", "(wanyuan)">>

DANGNIAN == <<"dangnian">>

RONGZI == <<"rongzi-rongquan-yue">>

XINZENG == <<"dangnian", "xinzeng">>

QIMO == <<"qimo-liutong-jingzichan">>

HeaderText == <<XIAOJI, DANGRI, RIJUN, YOUXIAO, LIUTONG>>

\* the label searched inside the header's columns; task 5 has none
LabelText == <<DANGNIAN, RONGZI, RONGZI, XINZENG, <<>> >>

CategoryText ==
    << <<"daili-maimai-yewu-jingshouru">>,
       <<"zuixin-shuangrong-yue-guimo", "(shidian,wanyuan)">>,
       <<"zuixin-shuangrong-yue-guimo", "(rijun,wanyuan)">>,
       <<"xinzeng", "youxiaohu", "(hu,bu-zhesuan)">>,
       <<"xinzeng", "kehu", "qimo-liutong-jingzichan">> >>

(***************************************************************************)
(* Worksheets                                                              *)
(***************************************************************************)
max_row(ws) == Len(ws.value)

max_column(ws) == IF ws.value = <<>> THEN 0 ELSE Len(ws.value[1])

\* ws.cell(row, column).value; a cell the sheet does not hold yet is created
\* empty by the access
CellValue(ws, r, c) ==
    IF r \in 1..max_row(ws) /\ c \in 1..max_column(ws) THEN ws.value[r][c] ELSE None

NoRange == [min_row |-> 0, max_row |-> 0, min_col |-> 0, max_col |-> 0]

Range(r1, c1, r2, c2) == [min_row |-> r1, max_row |-> r2, min_col |-> c1, max_col |-> c2]

InRange(rg, r, c) == /\ rg.min_row <= r /\ r <= rg.max_row
                     /\ rg.min_col <= c /\ c <= rg.max_col

\* a cell of a merged range other than its top-left one: the library gives
\* it no value of its own and refuses assignments to it
IsMergedCell(ws, r, c) ==
    \E i \in 1..Len(ws.merged) :
        /\ InRange(ws.merged[i], r, c)
        /\ <<r, c>> # <<ws.merged[i].min_row, ws.merged[i].min_col>>

DefaultStyle == [alignment |-> "general", font |-> "template"]

WrittenStyle == [alignment |-> "center/center", font |-> "color=000000"]

(***************************************************************************)
(* Helper functions                                                        *)
(***************************************************************************)
RECURSIVE MergedScan_last(_, _, _)
\* the loop without its early return: a later match replaces an earlier one
MergedScan_last(ws, target_text, i) ==
    IF i > Len(ws.merged) THEN NoRange
    ELSE LET later == MergedScan_last(ws, target_text, i + 1)
             top_left == CellValue(ws, ws.merged[i].min_row, ws.merged[i].min_col)
         IN  IF later # NoRange THEN later
             ELSE IF CellHasText(top_left, target_text) THEN ws.merged[i]
             ELSE NoRange

RECURSIVE MergedScan(_, _, _)
\* the for loop of find_merged_cell_by_text, from the i-th range on
MergedScan(ws, target_text, i) ==
    IF i > Len(ws.merged) THEN NoRange
    ELSE LET merged_range_i == ws.merged[i]
             top_left == CellValue(ws, merged_range_i.min_row, merged_range_i.min_col)
         IN  IF CellHasText(top_left, target_text)
             THEN merged_range_i
             ELSE MergedScan(ws, target_text, i + 1)

find_merged_cell_by_text(ws, target_text) == MergedScan(ws, target_text, 1)

RECURSIVE TextScan(_, _, _, _, _, _, _)
\* the nested for loops of find_text_in_column_range, from cell (r, c) on:
\* rows outermost, columns innermost
TextScan(ws, target_text, r, c, max_r, min_col, max_col) ==
    IF r > max_r THEN <<0, 0>>
    ELSE IF c > max_col
         THEN TextScan(ws, target_text, r + 1, min_col, max_r, min_col, max_col)
    ELSE IF r > max_row(ws) \/ c > max_column(ws)
         THEN TextScan(ws, target_text, r, c + 1, max_r, min_col, max_col)
    ELSE IF CellHasText(CellValue(ws, r, c), target_text)
         THEN <<r, c>>
    ELSE TextScan(ws, target_text, r, c + 1, max_r, min_col, max_col)

RECURSIVE ColumnScan(_, _, _, _, _, _, _)
ColumnScan(ws, target_text, r, c, min_r, max_r, max_col) ==
    IF c > max_col THEN <<0, 0>>
    ELSE IF r > max_r
         THEN ColumnScan(ws, target_text, min_r, c + 1, min_r, max_r, max_col)
    ELSE IF r > max_row(ws) \/ c > max_column(ws)
         THEN ColumnScan(ws, target_text, r + 1, c, min_r, max_r, max_col)
    ELSE IF CellHasText(CellValue(ws, r, c), target_text)
         THEN <<r, c>>
    ELSE ColumnScan(ws, target_text, r + 1, c, min_r, max_r, max_col)

\* the two for loops swapped: down each column before the next column
find_text_columns_first(ws, target_text, min_r, max_r, min_col, max_col) ==
    ColumnScan(ws, target_text, min_r, min_col, min_r, max_r, max_col)

find_text_in_column_range(ws, target_text, min_r, max_r, min_col, max_col) ==
    TextScan(ws, target_text, min_r, min_col, max_r, min_col, max_col)

NotFoundBelow == [row |-> 0, col |-> 0, value |-> None]

Min(a, b) == IF a <= b THEN a ELSE b

RECURSIVE BelowScan_truthy(_, _, _, _)
\* the loop with `if cell_value:` as its test, which skips a numeric 0
BelowScan_truthy(ws, r, col, stop) ==
    IF r >= stop THEN NotFoundBelow
    ELSE LET cell_value == CellValue(ws, r, col)
         IN  IF Truthy(cell_value)
             THEN [row |-> r, col |-> col, value |-> cell_value]
             ELSE BelowScan_truthy(ws, r + 1, col, stop)

RECURSIVE BelowScan(_, _, _, _)
\* the for loop of find_first_non_empty_below, from row r up to stop - 1
BelowScan(ws, r, col, stop) ==
    IF r >= stop THEN NotFoundBelow
    ELSE LET cell_value == CellValue(ws, r, col)
         IN  IF cell_value # None /\ cell_value # Str(<<>>)
             THEN [row |-> r, col |-> col, value |-> cell_value]
             ELSE BelowScan(ws, r + 1, col, stop)

find_first_non_empty_below(ws, start_row, col, max_rows_to_check) ==
    BelowScan(ws, start_row + 1, col,
              Min(start_row + 1 + max_rows_to_check, max_row(ws) + 1))

RECURSIVE CategoryScan(_, _, _)
CategoryScan(ws, category_text, row) ==
    IF row > max_row(ws) THEN 0
    ELSE IF CellHasText(CellValue(ws, row, TEMPLATE_CATEGORY_COL), category_text)
         THEN row
         ELSE CategoryScan(ws, category_text, row + 1)

find_template_category_row(ws, category_text) == CategoryScan(ws, category_text, 1)

RECURSIVE HeaderScan(_, _, _, _)
HeaderScan(ws, header_text, header_row, col) ==
    IF col > max_column(ws) THEN 0
    ELSE LET cell_value == CellValue(ws, header_row, col)
         IN  IF Truthy(cell_value) /\ IsStr(cell_value)
                /\ Strip(header_text) = Strip(cell_value.s)
             THEN col
             ELSE HeaderScan(ws, header_text, header_row, col + 1)

find_column_index_by_header(ws, header_text, header_row) ==
    HeaderScan(ws, header_text, header_row, 1)

\* processed_value of update_template
ProcessedValue(value) == IF IsNumber(value) THEN Num(Round2(value.n)) ELSE value

\* ws with cell (r, c) set to value v and to the script's formatting
SetCell(ws, r, c, v) ==
    [ws EXCEPT !.value[r][c] = v, !.style[r][c] = WrittenStyle]

\* update_template storing the value as it came, not processed_value
update_template_unrounded(ws, target_row, target_col, value) ==
    IF target_row = 0 THEN [ok |-> FALSE, ws |-> ws]
    ELSE IF target_col = 0 THEN [ok |-> FALSE, ws |-> ws]
    ELSE IF IsMergedCell(ws, target_row, target_col) THEN [ok |-> FALSE, ws |-> ws]
    ELSE [ok |-> TRUE, ws |-> SetCell(ws, target_row, target_col, value)]

\* update_template writing into the category column, not the target column
update_template_category_col(ws, target_row, target_col, value) ==
    IF target_row = 0 THEN [ok |-> FALSE, ws |-> ws]
    ELSE IF target_col = 0 THEN [ok |-> FALSE, ws |-> ws]
    ELSE IF IsMergedCell(ws, target_row, TEMPLATE_CATEGORY_COL) THEN [ok |-> FALSE, ws |-> ws]
    ELSE [ok |-> TRUE,
          ws |-> SetCell(ws, target_row, TEMPLATE_CATEGORY_COL, ProcessedValue(value))]

\* update_template: the returned flag and the worksheet afterwards.  The
\* assignment raises on a merged cell that is not the top-left cell of its
\* range; the except clause turns that into False, nothing being written.
update_template(ws, target_row, target_col, value) ==
    IF target_row = 0 THEN [ok |-> FALSE, ws |-> ws]
    ELSE IF target_col = 0 THEN [ok |-> FALSE, ws |-> ws]
    ELSE IF IsMergedCell(ws, target_row, target_col) THEN [ok |-> FALSE, ws |-> ws]
    ELSE [ok |-> TRUE, ws |-> SetCell(ws, target_row, target_col, ProcessedValue(value))]

(***************************************************************************)
(* Input worksheets                                                        *)
(*                                                                         *)
(* A source sheet is two columns wide.  Its first rows are header rows, a  *)
(* header being a cell in column 1 that is (or is not) merged with its     *)
(* neighbour in column 2; then come `gap` empty rows, a row of two label   *)
(* cells, `vgap` empty rows and a row of two value cells.                  *)
(***************************************************************************)
MaxGap == 4

MaxValueGap == 10

MaxBodyRows == 2

Sheet(rows, merged) ==
    [value |-> rows,
     style |-> [r \in 1..Len(rows) |-> [c \in 1..Len(rows[r]) |-> DefaultStyle]],
     merged |-> merged]

Blank(n) == [i \in 1..n |-> <<None, None>>]

RECURSIVE HeaderRanges(_, _)
\* the merged ranges of header rows i.. in sheet order
HeaderRanges(hdrs, i) ==
    IF i > Len(hdrs) THEN <<>>
    ELSE (IF hdrs[i].merged THEN <<Range(i, 1, i, 2)>> ELSE <<>>)
         \o HeaderRanges(hdrs, i + 1)

RECURSIVE Reverse(_)
Reverse(q) == IF q = <<>> THEN <<>> ELSE Append(Reverse(Tail(q)), Head(q))

BuildSource(hdrs, reversed, gap, labels, vgap, values) ==
    Sheet([i \in 1..Len(hdrs) |-> <<hdrs[i].v, IF hdrs[i].merged THEN None ELSE Str(<<"beizhu">>)>>]
            \o Blank(gap) \o <<labels>> \o Blank(vgap) \o <<values>>,
          IF reversed THEN Reverse(HeaderRanges(hdrs, 1)) ELSE HeaderRanges(hdrs, 1))

Hdr(v, merged) == [v |-> v, merged |-> merged]

HeaderOptions ==
    {Hdr(Str(HeaderText[m]), TRUE) : m \in Tasks}
    \cup {Hdr(Str(XIAOJI), FALSE), Hdr(None, TRUE)}

LabelOptions == {None, Str(DANGNIAN), Str(RONGZI), Str(XINZENG), Str(LIUTONG)}

ValueOptions == {None, Str(<<>>), Num(0), Num(12345), Num(-125), Str(<<"bu-shiyong">>)}

\* one header row per task, the longest header first so that no header lies
\* in the rows searched below another one
AllHeaders == <<Hdr(Str(LIUTONG), TRUE), Hdr(Str(XIAOJI), TRUE), Hdr(Str(DANGRI), TRUE),
                Hdr(Str(RIJUN), TRUE), Hdr(Str(YOUXIAO), TRUE)>>

BaseLabels == <<Str(XINZENG), Str(RONGZI)>>

BaseValues == <<Num(12345), Num(375)>>

HeaderLists ==
    {<<>>} \cup {<<a>> : a \in HeaderOptions}
           \cup {<<a, b>> : a \in HeaderOptions, b \in HeaderOptions}
           \cup {AllHeaders}

\* the sources that vary one part of the layout at a time
SourceSheets ==
    {BuildSource(h, rev, 0, BaseLabels, 0, BaseValues) :
        h \in HeaderLists, rev \in BOOLEAN}
    \cup {BuildSource(h, FALSE, gap, <<l1, l2>>, 0, BaseValues) :
        h \in {AllHeaders, <<AllHeaders[5]>>, <<AllHeaders[2], AllHeaders[3]>>},
        gap \in 0..MaxGap, l1 \in LabelOptions, l2 \in LabelOptions}
    \cup {BuildSource(h, FALSE, 0, <<l1, Str(RONGZI)>>, vgap, <<v1, v2>>) :
        h \in {AllHeaders}, l1 \in {Str(XINZENG), Str(LIUTONG)},
        vgap \in {0, MaxValueGap - 1, MaxValueGap},
        v1 \in ValueOptions, v2 \in ValueOptions}
    \cup {BuildSource(<<AllHeaders[5]>>, FALSE, 0, <<l1, l2>>, 0, <<v1, v2>>) :
        l1 \in LabelOptions, l2 \in LabelOptions,
        v1 \in LabelOptions, v2 \in LabelOptions}

\* the sources every template is tried with
ReferenceSources ==
    {BuildSource(AllHeaders, FALSE, 0, BaseLabels, 0, BaseValues),
     BuildSource(<<AllHeaders[1], AllHeaders[5]>>, FALSE, 0, BaseLabels, 0,
                 <<Num(125), Str(<<"bu-shiyong">>)>>)}

(***************************************************************************)
(* A template sheet is four columns wide: a title row, the header row      *)
(* (HEADER_ROW) and body rows whose third cell (TEMPLATE_CATEGORY_COL)     *)
(* names a category.                                                       *)
(***************************************************************************)
TargetHeaderOptions ==
    {None, Str(TARGET_COLUMN_HEADER),
     Str(<<SPACE>> \o TARGET_COLUMN_HEADER \o <<SPACE>>),
     Str(TARGET_COLUMN_HEADER \o <<"(jihua)">>)}

CategoryOptions ==
    {None} \cup {Str(CategoryText[m]) : m \in Tasks}
           \cup {Str(CategoryText[4] \o <<"/">> \o CategoryText[5]), Str(LIUTONG)}

\* merge_body: the first body row's category cell is merged with its
\* neighbour in column 4
BuildTemplate(h3, h4, cats, merge_body) ==
    Sheet(<< <<None, None, Str(<<"leibie">>), None>>,
             <<Str(<<"xuhao">>), None, h3, h4>> >>
          \o [i \in 1..Len(cats) |->
                <<None, None, cats[i],
                  IF merge_body /\ i = 1 THEN None ELSE Num(1000 * i)>>],
          IF merge_body /\ Len(cats) >= 1
          THEN <<Range(HEADER_ROW + 1, 3, HEADER_ROW + 1, 4)>> ELSE <<>>)

RECURSIVE SeqsUpTo(_, _)
\* the sequences over S of length at most n
SeqsUpTo(S, n) ==
    IF n = 0 THEN {<<>>}
    ELSE LET shorter == SeqsUpTo(S, n - 1)
         IN  shorter \cup {Append(q, x) : q \in shorter, x \in S}

BaseCategories == [m \in Tasks |-> Str(CategoryText[m])]

TemplateSheets ==
    {BuildTemplate(h3, h4, BaseCategories, FALSE) :
        h3 \in TargetHeaderOptions, h4 \in TargetHeaderOptions}
    \cup {BuildTemplate(h3, h4, cats, mb) :
        h3 \in {None, Str(TARGET_COLUMN_HEADER)}, h4 \in {Str(TARGET_COLUMN_HEADER)},
        cats \in SeqsUpTo(CategoryOptions, MaxBodyRows), mb \in BOOLEAN}

ReferenceTemplates ==
    {BuildTemplate(None, Str(TARGET_COLUMN_HEADER), BaseCategories, FALSE)}

(***************************************************************************)
(* main()                                                                  *)
(***************************************************************************)
NoSheet == [value |-> <<>>, style |-> <<>>, merged |-> <<>>]

\* what a file name stands for on disk
Absent == [kind |-> "absent", ws |-> NoSheet]

Corrupt == [kind |-> "corrupt", ws |-> NoSheet]

Workbook(ws) == [kind |-> "workbook", ws |-> ws]

\* os.path.exists
Exists(name) == name \in DOMAIN fs /\ fs[name].kind # "absent"

LogEntry(m, step, ok) == [task |-> m, step |-> step, ok |-> ok]

\* a failed lookup ends the tasks: main() goes straight to the save
AfterTask_stop(m) == pc' = "save" /\ task' = 0

\* where main() goes after the if/else chain of task m
AfterTask(m) ==
    IF m = 5 THEN pc' = "save" /\ task' = 0
             ELSE pc' = "merged" /\ task' = m + 1

\* the check without its second test: only the source file is looked for
CheckFiles_source_only ==
    /\ pc = "check_files"
    /\ IF ~Exists(SOURCE_FILE)
       THEN pc' = "done" /\ outcome' = "returned"
       ELSE pc' = "load" /\ outcome' = outcome
    /\ UNCHANGED <<task, fs, source_ws, template_ws, actual_target_col,
                   merged_range, label_cell, found, template_row,
                   results_log, write_log, stdout, call, ret>>

\* lines 122-128
CheckFiles ==
    /\ pc = "check_files"
    /\ IF ~Exists(SOURCE_FILE) \/ ~Exists(TEMPLATE_FILE)
       THEN pc' = "done" /\ outcome' = "returned"
       ELSE pc' = "load" /\ outcome' = outcome
    /\ UNCHANGED <<task, fs, source_ws, template_ws, actual_target_col,
                   merged_range, label_cell, found, template_row,
                   results_log, write_log, stdout, call, ret>>

\* lines 130-141: the source workbook is loaded first; a load that raises is
\* caught and main() returns
LoadWorkbooks ==
    /\ pc = "load"
    /\ IF fs[SOURCE_FILE].kind # "workbook"
       THEN /\ pc' = "done" /\ outcome' = "returned"
            /\ UNCHANGED <<source_ws, template_ws>>
       ELSE IF fs[TEMPLATE_FILE].kind # "workbook"
       THEN /\ pc' = "done" /\ outcome' = "returned"
            /\ source_ws' = fs[SOURCE_FILE].ws
            /\ UNCHANGED template_ws
       ELSE /\ pc' = "find_target_col" /\ outcome' = outcome
            /\ source_ws' = fs[SOURCE_FILE].ws
            /\ template_ws' = fs[TEMPLATE_FILE].ws
    /\ UNCHANGED <<task, fs, actual_target_col,
                   merged_range, label_cell, found, template_row,
                   results_log, write_log, stdout, call, ret>>

\* lines 143-147
FindTargetColumn ==
    /\ pc = "find_target_col"
    /\ actual_target_col' =
           find_column_index_by_header(template_ws, TARGET_COLUMN_HEADER, HEADER_ROW)
    /\ IF actual_target_col' = 0
       THEN pc' = "done" /\ outcome' = "returned" /\ task' = task
       ELSE pc' = "merged" /\ task' = 1 /\ outcome' = outcome
    /\ UNCHANGED <<fs, source_ws, template_ws,
                   merged_range, label_cell, found, template_row,
                   results_log, write_log, stdout, call, ret>>

\* the find_merged_cell_by_text call that opens each task
\* (lines 151, 182, 211, 242, 275) and its else branch
TaskFindMerged(m) ==
    /\ pc = "merged" /\ task = m
    /\ LET rg == find_merged_cell_by_text(source_ws, HeaderText[m])
       IN  /\ merged_range' = [merged_range EXCEPT ![m] = rg]
           /\ results_log' = Append(results_log, LogEntry(m, "merged", rg # NoRange))
           /\ IF rg = NoRange
              THEN AfterTask(m) /\ UNCHANGED label_cell
              ELSE IF m = 5
              THEN \* task 8 looks below the top-left cell of the range itself
                   /\ label_cell' = [label_cell EXCEPT ![m] = <<rg.min_row, rg.min_col>>]
                   /\ pc' = "below" /\ task' = task
              ELSE /\ pc' = "text" /\ task' = task
                   /\ UNCHANGED label_cell
    /\ UNCHANGED <<fs, source_ws, template_ws, actual_target_col,
                   found, template_row, write_log, stdout, outcome, call, ret>>

\* the find_text_in_column_range call of tasks 1-4, 5, 6 and 7
\* (lines 155-162, 185-192, 215-222, 246-254) and its else branch
TaskFindText(m) ==
    /\ pc = "text" /\ task = m
    /\ LET rg == merged_range[m]
           rc == find_text_in_column_range(source_ws, LabelText[m],
                     rg.min_row, Min(rg.max_row + SEARCH_BELOW, max_row(source_ws)),
                     rg.min_col, rg.max_col)
           \* line 254: task 7 rejects a cell that holds the longer label
           accepted == /\ rc[1] # 0 /\ rc[2] # 0
                       /\ (m = 4 => ~Contains(QIMO, CellValue(source_ws, rc[1], rc[2]).s))
       IN  /\ label_cell' = [label_cell EXCEPT ![m] = rc]
           /\ results_log' = Append(results_log, LogEntry(m, "text", accepted))
           /\ IF accepted
              THEN pc' = "below" /\ task' = task
              ELSE AfterTask(m)
    /\ UNCHANGED <<fs, source_ws, template_ws, actual_target_col,
                   merged_range, found, template_row, write_log, stdout,
                   outcome, call, ret>>

\* the find_first_non_empty_below call of every task
\* (lines 164-165, 194-195, 224-225, 256-257, 279-280) and its else branch
TaskFindBelow(m) ==
    /\ pc = "below" /\ task = m
    /\ LET res == find_first_non_empty_below(source_ws, label_cell[m][1],
                                             label_cell[m][2], MAX_ROWS_TO_CHECK)
       IN  /\ found' = [found EXCEPT ![m] = res]
           /\ results_log' = Append(results_log, LogEntry(m, "below", res.value # None))
           /\ IF res.value # None
              THEN pc' = "update" /\ task' = task
              ELSE AfterTask(m)
    /\ UNCHANGED <<fs, source_ws, template_ws, actual_target_col,
                   merged_range, label_cell, template_row, write_log, stdout,
                   outcome, call, ret>>

\* find_template_category_row followed by update_template
\* (lines 167-171, 197-201, 227-231, 259-263, 282-286)
TaskUpdate(m) ==
    /\ pc = "update" /\ task = m
    /\ LET row == find_template_category_row(template_ws, CategoryText[m])
           res == update_template(template_ws, row, actual_target_col, found[m].value)
       IN  /\ template_row' = [template_row EXCEPT ![m] = row]
           /\ template_ws' = res.ws
           /\ write_log' =
                  IF res.ok
                  THEN Append(write_log,
                              [task |-> m, row |-> row, col |-> actual_target_col,
                               value |-> CellValue(res.ws, row, actual_target_col)])
                  ELSE write_log
           /\ results_log' = Append(results_log, LogEntry(m, "update", res.ok))
    /\ AfterTask(m)
    /\ UNCHANGED <<fs, source_ws, actual_target_col,
                   merged_range, label_cell, found, stdout, outcome, call, ret>>

TIMESTAMP == "_yigengxin_<timestamp>"

\* line 296
output_filename == Concat(RemoveAll(TEMPLATE_FILE, EXT), <<TIMESTAMP, EXT>>)

\* the save without its try/except: a failing save ends main() by the exception
Save_uncaught ==
    /\ pc = "save"
    /\ \E save_ok \in BOOLEAN :
          /\ fs' = IF save_ok
                   THEN [n \in DOMAIN fs \cup {output_filename} |->
                            IF n = output_filename THEN Workbook(template_ws) ELSE fs[n]]
                   ELSE fs
          /\ results_log' = IF save_ok
                            THEN Append(results_log, LogEntry(0, "save", save_ok))
                            ELSE results_log
          /\ IF save_ok THEN pc' = "summary" /\ outcome' = outcome
                        ELSE pc' = "done" /\ outcome' = "raised"
    /\ UNCHANGED <<task, source_ws, template_ws, actual_target_col,
                   merged_range, label_cell, found, template_row,
                   write_log, stdout, call, ret>>

\* lines 293-303: the save either succeeds or raises; the exception is caught
Save ==
    /\ pc = "save"
    /\ \E save_ok \in BOOLEAN :
          /\ fs' = IF save_ok
                   THEN [n \in DOMAIN fs \cup {output_filename} |->
                            IF n = output_filename THEN Workbook(template_ws) ELSE fs[n]]
                   ELSE fs
          /\ results_log' = Append(results_log, LogEntry(0, "save", save_ok))
    /\ pc' = "summary"
    /\ UNCHANGED <<task, source_ws, template_ws, actual_target_col,
                   merged_range, label_cell, found, template_row,
                   write_log, stdout, outcome, call, ret>>

\* lines 305-310
PrintSummary ==
    /\ pc = "summary"
    /\ stdout' = results_log
    /\ pc' = "done"
    /\ outcome' = "returned"
    /\ UNCHANGED <<task, fs, source_ws, template_ws, actual_target_col,
                   merged_range, label_cell, found, template_row,
                   results_log, write_log, call, ret>>

NoCall == [fn |-> "none", ws |-> NoSheet, text |-> <<>>, row |-> 0, col |-> 0,
           max_rows |-> 0, value |-> None]

NoRet == [done |-> FALSE, range |-> NoRange, below |-> NotFoundBelow,
          ok |-> FALSE, ws |-> NoSheet, again |-> NoSheet]

FileStates(sheets) == {Absent, Corrupt} \cup {Workbook(ws) : ws \in sheets}

\* the state in which main() is entered: the two input files are absent,
\* unreadable or hold a worksheet
Init ==
    /\ pc = "check_files"
    /\ task = 0
    /\ \E src \in FileStates(SourceSheets \cup ReferenceSources),
          tpl \in FileStates(TemplateSheets \cup ReferenceTemplates) :
          /\ \/ src.kind # "workbook"
             \/ tpl.kind # "workbook"
             \/ src.ws \in ReferenceSources
             \/ tpl.ws \in ReferenceTemplates
          /\ fs = [n \in {SOURCE_FILE, TEMPLATE_FILE} |->
                      IF n = SOURCE_FILE THEN src ELSE tpl]
    /\ source_ws = NoSheet
    /\ template_ws = NoSheet
    /\ actual_target_col = 0
    /\ merged_range = [m \in Tasks |-> NoRange]
    /\ label_cell = [m \in Tasks |-> <<0, 0>>]
    /\ found = [m \in Tasks |-> NotFoundBelow]
    /\ template_row = [m \in Tasks |-> 0]
    /\ results_log = <<>>
    /\ write_log = <<>>
    /\ stdout = <<>>
    /\ outcome = "running"
    /\ call = NoCall
    /\ ret = NoRet

Next ==
    \/ CheckFiles
    \/ LoadWorkbooks
    \/ FindTargetColumn
    \/ \E m \in Tasks : TaskFindMerged(m)
    \/ \E m \in Tasks : TaskFindText(m)
    \/ \E m \in Tasks : TaskFindBelow(m)
    \/ \E m \in Tasks : TaskUpdate(m)
    \/ Save
    \/ PrintSummary

Spec == Init /\ [][Next]_vars

(***************************************************************************)
(* The helper functions on their own: one call, with arguments drawn from  *)
(* bounded sets, and its result.                                           *)
(***************************************************************************)
MaxUnitHeaders == 3

UnitRows == 3

MaxCheck == 2

MaxMilli == 400

UnitHeaderOptions ==
    {Hdr(Str(XIAOJI), TRUE), Hdr(Str(LIUTONG), TRUE), Hdr(Str(XIAOJI), FALSE), Hdr(None, TRUE)}

\* every order in which the library may hand out the merged ranges of ws
Reordered(ws) ==
    {[ws EXCEPT !.merged = [i \in 1..Len(ws.merged) |-> ws.merged[p[i]]]] :
        p \in Permutations(1..Len(ws.merged))}

MergedCalls ==
    {[NoCall EXCEPT !.fn = "find_merged_cell_by_text", !.ws = ws, !.text = text] :
        ws \in UNION {Reordered(BuildSource(h, FALSE, 0, BaseLabels, 0, BaseValues)) :
                         h \in SeqsUpTo(UnitHeaderOptions, MaxUnitHeaders)},
        text \in {XIAOJI, DANGNIAN, XINZENG}}

BelowOptions == {None, Str(<<>>), Num(0), Str(<<"bu-shiyong">>)}

\* two columns: one holds any values, its neighbour the same value in every row
BelowSheets ==
    UNION {{Sheet([r \in 1..UnitRows |-> <<a[r], b>>], <<>>),
            Sheet([r \in 1..UnitRows |-> <<b, a[r]>>], <<>>)} :
              a \in [1..UnitRows -> BelowOptions], b \in BelowOptions}

BelowCalls ==
    {[NoCall EXCEPT !.fn = "find_first_non_empty_below", !.ws = ws,
                    !.row = start_row, !.col = col, !.max_rows = n] :
        ws \in BelowSheets,
        start_row \in 1..UnitRows, col \in 1..2, n \in 0..MaxCheck}

\* the numbers on which round(x, 2) is modelled exactly: no tie, or a tie
\* that a binary float holds exactly (a multiple of 0.125)
FloatValues == {n \in (-MaxMilli)..MaxMilli : n % 10 # 5 \/ n % 125 = 0}

UpdateCalls ==
    {[NoCall EXCEPT !.fn = "update_template", !.ws = ws, !.row = row, !.col = col,
                    !.value = v] :
        ws \in {BuildTemplate(None, Str(TARGET_COLUMN_HEADER),
                              <<Str(CategoryText[1]), Str(CategoryText[2])>>, mb) :
                   mb \in BOOLEAN},
        row \in {0, HEADER_ROW + 1, HEADER_ROW + 2}, col \in {0, 4},
        v \in {Num(n) : n \in FloatValues} \cup {Str(<<>>), Str(<<"bu-shiyong">>)}}

UnitInit ==
    /\ pc = "unit"
    /\ task = 0
    /\ fs = [n \in {SOURCE_FILE, TEMPLATE_FILE} |-> Absent]
    /\ source_ws = NoSheet
    /\ template_ws = NoSheet
    /\ actual_target_col = 0
    /\ merged_range = [m \in Tasks |-> NoRange]
    /\ label_cell = [m \in Tasks |-> <<0, 0>>]
    /\ found = [m \in Tasks |-> NotFoundBelow]
    /\ template_row = [m \in Tasks |-> 0]
    /\ results_log = <<>>
    /\ write_log = <<>>
    /\ stdout = <<>>
    /\ outcome = "running"
    /\ call \in MergedCalls \cup BelowCalls \cup UpdateCalls
    /\ ret = NoRet

Call_find_merged_cell_by_text ==
    /\ call.fn = "find_merged_cell_by_text" /\ ~ret.done
    /\ ret' = [NoRet EXCEPT !.done = TRUE,
                            !.range = find_merged_cell_by_text(call.ws, call.text)]
    /\ UNCHANGED <<mainVars, call>>

Call_find_first_non_empty_below ==
    /\ call.fn = "find_first_non_empty_below" /\ ~ret.done
    /\ ret' = [NoRet EXCEPT !.done = TRUE,
                            !.below = find_first_non_empty_below(call.ws, call.row,
                                                                 call.col, call.max_rows)]
    /\ UNCHANGED <<mainVars, call>>

Call_update_template ==
    /\ call.fn = "update_template" /\ ~ret.done
    /\ LET res == update_template(call.ws, call.row, call.col, call.value)
       IN  ret' = [NoRet EXCEPT !.done = TRUE, !.ok = res.ok, !.ws = res.ws]
    /\ UNCHANGED <<mainVars, call>>

\* the value a successful update_template stored is written to the same
\* cell once more
Call_update_template_again ==
    /\ call.fn = "update_template" /\ ret.done /\ ret.ok /\ ret.again = NoSheet
    /\ LET res == update_template(ret.ws, call.row, call.col,
                                  CellValue(ret.ws, call.row, call.col))
       IN  ret' = [ret EXCEPT !.again = res.ws]
    /\ UNCHANGED <<mainVars, call>>

UnitNext ==
    \/ Call_find_merged_cell_by_text
    \/ Call_find_first_non_empty_below
    \/ Call_update_template
    \/ Call_update_template_again

UnitSpec == UnitInit /\ [][UnitNext]_vars

\* main() is straight-line code: every step that can be taken is taken
FairSpec == Spec /\ WF_vars(Next)

(***************************************************************************)
(* Properties of the helper functions (UnitSpec)                           *)
(***************************************************************************)
\* the ranges of ws whose top-left cell holds a string containing text
MatchingRanges(ws, text) ==
    {i \in 1..Len(ws.merged) :
        LET v == ws.value[ws.merged[i].min_row][ws.merged[i].min_col]
        IN  v.t = "str" /\ Contains(text, v.s)}

MergedCallDone == call.fn = "find_merged_cell_by_text" /\ ret.done

\* C5 as stated: find_merged_cell_by_text returns a matching merged range
\* than which no matching range has a smaller top row, and None exactly when
\* no merged range matches.
C5_TopToBottomOrder ==
    MergedCallDone =>
        LET M == MatchingRanges(call.ws, call.text)
        IN  IF M = {} THEN ret.range = NoRange
            ELSE /\ \E i \in M : ret.range = call.ws.merged[i]
                 /\ \A i \in M : ret.range.min_row <= call.ws.merged[i].min_row

\* C5 amended: find_merged_cell_by_text returns the first matching merged
\* range in the order in which ws.merged_cells.ranges hands the ranges out,
\* whatever their rows, and None exactly when no merged range matches.
C5_IterationOrder ==
    MergedCallDone =>
        LET M == MatchingRanges(call.ws, call.text)
        IN  IF M = {} THEN ret.range = NoRange
            ELSE \E i \in M : /\ ret.range = call.ws.merged[i]
                               /\ \A j \in M : i <= j

\* two ranges match and the one handed out first is the lower one
C5_Witness ==
    /\ MergedCallDone
    /\ \E i, j \in MatchingRanges(call.ws, call.text) :
          /\ i < j
          /\ call.ws.merged[i].min_row > call.ws.merged[j].min_row
          /\ ret.range = call.ws.merged[i]

BelowCallDone == call.fn = "find_first_non_empty_below" /\ ret.done

\* the rows below start_row, within the bound, that hold a value in column col
NonEmptyBelow(ws, start_row, col, max_rows_to_check) ==
    {r \in (start_row + 1)..Min(start_row + max_rows_to_check, Len(ws.value)) :
        ws.value[r][col] # None /\ ws.value[r][col] # Str(<<>>)}

\* C6: find_first_non_empty_below returns (r, col, v), r the smallest row with
\* start_row < r <= min(start_row + max_rows_to_check, ws.max_row) whose cell
\* in column col is neither None nor "" (a 0 counts), v that cell's value;
\* it returns (None, None, None) exactly when there is no such row.
C6_FirstNonEmptyBelow ==
    BelowCallDone =>
        LET C == NonEmptyBelow(call.ws, call.row, call.col, call.max_rows)
            res == ret.below
        IN  IF C = {} THEN res = NotFoundBelow
            ELSE /\ res.row \in C
                 /\ \A r \in C : res.row <= r
                 /\ res.row # call.row
                 /\ res.col = call.col
                 /\ res.value = call.ws.value[res.row][call.col]
                 /\ res.value # None

\* a 0 is returned from two rows below the start, past an empty string
C6_Witness ==
    /\ BelowCallDone
    /\ ret.below.value = Num(0)
    /\ ret.below.row = call.row + 2
    /\ call.ws.value[call.row + 1][call.col] = Str(<<>>)
    /\ call.max_rows = 2

Abs(x) == IF x < 0 THEN -x ELSE x

\* the call names a cell that takes a value: a row and a column are given
\* and the cell is not the covered part of a merged range
UpdateCallValid ==
    /\ call.fn = "update_template" /\ ret.done
    /\ call.row # 0 /\ call.col # 0
    /\ ~IsMergedCell(call.ws, call.row, call.col)

src0 == fs[SOURCE_FILE].ws

tpl0 == fs[TEMPLATE_FILE].ws

BothLoadable == fs[SOURCE_FILE].kind = "workbook" /\ fs[TEMPLATE_FILE].kind = "workbook"

Logged(m, step) == \E i \in DOMAIN results_log :
                      results_log[i].task = m /\ results_log[i].step = step

LoggedAs(m, step, ok) == \E i \in DOMAIN results_log :
                            results_log[i] = LogEntry(m, step, ok)

WritesOf(m) == {i \in DOMAIN write_log : write_log[i].task = m}

\* the columns of the header row whose stripped text is the target header
TargetColumns(ws) ==
    {c \in 1..Len(ws.value[HEADER_ROW]) :
        LET v == ws.value[HEADER_ROW][c]
        IN  v.t = "str" /\ Strip(v.s) = TARGET_COLUMN_HEADER}

OutputFiles == DOMAIN fs \ {SOURCE_FILE, TEMPLATE_FILE}

\* C4: when the source file or the template file does not exist, main()
\* stops at the check: no workbook is loaded, no lookup is run, no template
\* cell is changed, nothing is saved and no exception escapes.
C4_MissingFileAborts ==
    (~Exists(SOURCE_FILE) \/ ~Exists(TEMPLATE_FILE)) =>
        /\ pc \in {"check_files", "done"}
        /\ source_ws = NoSheet /\ template_ws = NoSheet
        /\ actual_target_col = 0
        /\ \A m \in Tasks : /\ merged_range[m] = NoRange
                            /\ label_cell[m] = <<0, 0>>
                            /\ found[m] = NotFoundBelow
                            /\ template_row[m] = 0
        /\ results_log = <<>> /\ write_log = <<>>
        /\ OutputFiles = {}
        /\ outcome # "raised"
        /\ pc = "done" => outcome = "returned"

\* main() has returned with the source file present and the template absent
C4_Witness ==
    /\ pc = "done"
    /\ fs[SOURCE_FILE].kind = "workbook"
    /\ ~Exists(TEMPLATE_FILE)

\* what the lookups of task m yield on the source sheet ws: the value below
\* the label, None when one of the lookups finds nothing
LookupLabel(ws, m) ==
    LET rg == find_merged_cell_by_text(ws, HeaderText[m])
    IN  IF rg = NoRange THEN <<0, 0>>
        ELSE IF m = 5 THEN <<rg.min_row, rg.min_col>>
        ELSE LET rc == find_text_in_column_range(ws, LabelText[m], rg.min_row,
                           Min(rg.max_row + SEARCH_BELOW, max_row(ws)),
                           rg.min_col, rg.max_col)
             IN  IF rc # <<0, 0>> /\ m = 4 /\ Contains(QIMO, CellValue(ws, rc[1], rc[2]).s)
                 THEN <<0, 0>> ELSE rc

Lookup(ws, m) ==
    LET rc == LookupLabel(ws, m)
    IN  IF rc = <<0, 0>> THEN None
        ELSE find_first_non_empty_below(ws, rc[1], rc[2], MAX_ROWS_TO_CHECK).value

\* the value of task m has been written to the template
Written(m) ==
    \E i \in WritesOf(m) : write_log[i].value = ProcessedValue(Lookup(src0, m))

\* C1 as stated: whichever lookup finds nothing - the target column header
\* included - every task is still processed, and every task whose own
\* lookups (header, label, value, category row) all succeed has its value
\* written by the end of the run.
C1_AnyLookupSkipsOneMetric ==
    (pc = "done" /\ BothLoadable) =>
        \A m \in Tasks :
            /\ Logged(m, "merged")
            /\ (Lookup(src0, m) # None
                 /\ find_template_category_row(tpl0, CategoryText[m]) # 0) => Written(m)

\* C1 amended: a header, label, value or category row that is not found
\* skips that one task and every task is still processed; a task whose value
\* is found is written when its category row is found and the target cell
\* takes a value, and is logged as a failed update otherwise.  The target
\* column header is different: when it is not found main() returns at once,
\* no task is processed, nothing is written, saved or printed.
C1_SkipOneMetricOrStop ==
    (pc = "done" /\ BothLoadable) =>
        IF TargetColumns(tpl0) = {}
        THEN /\ results_log = <<>> /\ write_log = <<>> /\ stdout = <<>>
             /\ template_ws = tpl0 /\ OutputFiles = {}
        ELSE \A m \in Tasks :
               /\ Logged(m, "merged")
               /\ Lookup(src0, m) = None => ~Logged(m, "update") /\ WritesOf(m) = {}
               /\ Lookup(src0, m) # None =>
                     /\ found[m].value = Lookup(src0, m)
                     /\ Logged(m, "update")
                     /\ IF template_row[m] # 0
                           /\ ~IsMergedCell(tpl0, template_row[m], actual_target_col)
                        THEN Written(m) /\ LoggedAs(m, "update", TRUE)
                        ELSE WritesOf(m) = {} /\ LoggedAs(m, "update", FALSE)

\* the run ended with one task skipped for a lookup that found nothing, one
\* task skipped for a missing category row and a later task written
C1_Witness ==
    /\ pc = "done" /\ BothLoadable
    /\ \E m1, m2, m3 \in Tasks :
          /\ m1 < m3 /\ m2 < m3
          /\ Lookup(src0, m1) = None
          /\ Lookup(src0, m2) # None /\ template_row[m2] = 0
          /\ Written(m3)

SaveLogged == Logged(0, "save")

\* the last write into row r of the target column
LastWrite(r) ==
    LET W == {i \in DOMAIN write_log : write_log[i].row = r}
    IN  CHOOSE i \in W : \A j \in W : j <= i

\* C2 as stated: once the save step is reached, every value found below a
\* label was written exactly once, to the cell of the task's category row in
\* the target column, and that cell holds the task's value at the save.
C2_EveryFoundValueKept ==
    SaveLogged =>
        \A m \in Tasks : found[m].value # None =>
            /\ Cardinality(WritesOf(m)) = 1
            /\ \A i \in WritesOf(m) :
                  /\ write_log[i].row = template_row[m]
                  /\ write_log[i].row # 0
                  /\ write_log[i].col = actual_target_col
                  /\ CellValue(template_ws, write_log[i].row, write_log[i].col)
                        = ProcessedValue(found[m].value)

\* C2 amended: once the save step is reached, every found value is written
\* at most once, and exactly once when its category row is found and the
\* target cell takes a value; it is written, rounded to two decimals if
\* numeric, to the cell of that row in the target column; at the save each
\* written cell holds the value of the last task written to it, which is the
\* task's own value unless a later task was written to the same row.  A
\* found value whose category row is not found is not written anywhere.
C2_FoundValueWrittenOnceOrDropped ==
    SaveLogged =>
        \A m \in Tasks : found[m].value # None =>
            /\ Cardinality(WritesOf(m)) <= 1
            /\ WritesOf(m) # {} <=>
                  (template_row[m] # 0
                   /\ ~IsMergedCell(tpl0, template_row[m], actual_target_col))
            /\ \A i \in WritesOf(m) :
                  /\ write_log[i].row = template_row[m]
                  /\ write_log[i].col = actual_target_col
                  /\ write_log[i].value = ProcessedValue(found[m].value)
                  /\ CellValue(template_ws, write_log[i].row, write_log[i].col)
                        = write_log[LastWrite(write_log[i].row)].value
                  /\ template_ws.style[write_log[i].row][write_log[i].col] = WrittenStyle
                  /\ (\A j \in DOMAIN write_log : j > i => write_log[j].row # write_log[i].row)
                        => CellValue(template_ws, write_log[i].row, write_log[i].col)
                             = ProcessedValue(found[m].value)
                  /\ LoggedAs(0, "save", TRUE) =>
                        fs[output_filename] = Workbook(template_ws)

\* the template was saved with one found value in its cell, rounded, and
\* another found value dropped for want of a category row
C2_Witness ==
    /\ pc = "done" /\ LoggedAs(0, "save", TRUE)
    /\ \E m1, m2 \in Tasks :
          /\ found[m1].value # None /\ found[m2].value # None
          /\ WritesOf(m2) = {}
          /\ \E i \in WritesOf(m1) :
                /\ found[m1].value # write_log[i].value
                /\ CellValue(fs[output_filename].ws, template_row[m1], actual_target_col)
                      = write_log[i].value

\* C3: no two tasks write into the same template row during a run.
C3_OneValuePerCategoryRow ==
    \A i, j \in DOMAIN write_log : i # j => write_log[i].row # write_log[j].row

\* both files load and the target column header is found
RunProceeds == BothLoadable /\ TargetColumns(tpl0) # {}

SaveEntries == {i \in DOMAIN results_log : results_log[i].step = "save"}

\* at the end of a run that proceeds: one save was attempted, after all five
\* tasks; the output name is not the template's name and the template file
\* is as it was; a successful save holds the template sheet as it is at the
\* end, a failed save is recorded; the summary was printed, save entry
\* included, and main() returned
C8_AtTheEnd ==
    (pc = "done" /\ RunProceeds) =>
        /\ Cardinality(SaveEntries) = 1
        /\ \A m \in Tasks : Logged(m, "merged")
        /\ output_filename # TEMPLATE_FILE /\ output_filename # SOURCE_FILE
        /\ IF LoggedAs(0, "save", TRUE)
           THEN OutputFiles = {output_filename}
                /\ fs[output_filename] = Workbook(template_ws)
           ELSE OutputFiles = {} /\ LoggedAs(0, "save", FALSE)
        /\ stdout = results_log
        /\ outcome = "returned"

\* a step taken once the save is logged changes neither the template sheet
\* nor any file; no step changes the two input files; no save entry is
\* logged before the last task is done
C8_NothingAfterSave ==
    /\ SaveLogged => /\ template_ws' = template_ws
                     /\ write_log' = write_log
                     /\ fs' = fs
    /\ fs'[TEMPLATE_FILE] = fs[TEMPLATE_FILE]
    /\ fs'[SOURCE_FILE] = fs[SOURCE_FILE]
    /\ (SaveEntries' # {} /\ SaveEntries = {}) => pc = "save" /\ task = 0

\* C8: in a run in which both files load and the target column header is
\* found, the template is saved once, after the five tasks and with no
\* template cell written afterwards, under a name other than the template's;
\* a failing save is recorded in the summary, no exception escapes, the
\* summary is printed and the run ends.
C8_SavedOnceAtTheEnd ==
    /\ []C8_AtTheEnd
    /\ [][C8_NothingAfterSave]_vars
    /\ (RunProceeds ~> (pc = "done"))

\* a run that proceeded has ended after a failed save
C8_Witness ==
    /\ pc = "done" /\ RunProceeds
    /\ LoggedAs(0, "save", FALSE)
    /\ write_log # <<>>

\* (r1, c1) comes before (r2, c2) or is it, reading row by row, left to right
RowMajorLE(a, b) == a[1] < b[1] \/ (a[1] = b[1] /\ a[2] <= b[2])

\* the cells of the rectangle searched for task 7 that hold XINZENG
XinzengCells ==
    LET rg == merged_range[4]
    IN  {rc \in (rg.min_row..Min(rg.max_row + 5, Len(source_ws.value)))
                \X (rg.min_col..rg.max_col) :
            LET v == source_ws.value[rc[1]][rc[2]]
            IN  v.t = "str" /\ Contains(XINZENG, v.s)}

HoldsQimo(rc) == Contains(QIMO, source_ws.value[rc[1]][rc[2]].s)

ChangedCells ==
    {rc \in (1..Len(tpl0.value)) \X (1..Len(tpl0.value[1])) :
        \/ template_ws.value[rc[1]][rc[2]] # tpl0.value[rc[1]][rc[2]]
        \/ template_ws.style[rc[1]][rc[2]] # tpl0.style[rc[1]][rc[2]]}

\* the first row of ws whose category cell holds a string containing text
CategoryRows(ws, text) ==
    {r \in 1..Len(ws.value) :
        LET v == ws.value[r][TEMPLATE_CATEGORY_COL]
        IN  /\ v.t = "str" /\ Contains(text, v.s)
            /\ \A q \in 1..(r - 1) :
                   LET u == ws.value[q][TEMPLATE_CATEGORY_COL]
                   IN  ~(u.t = "str" /\ Contains(text, u.s))}

\* C10: the template cells that a run changes, in value or formatting, lie
\* in the one target column (the first column of the header row whose
\* stripped text is the target header), in rows find_template_category_row
\* returned for one of the five category texts; the sheet keeps its size and
\* merged ranges, the source sheet is never modified, and update_template
\* without a row or without a column returns False and changes no cell.
C10_OnlyTargetCellsChange ==
    (BothLoadable /\ pc \notin {"check_files", "load"}) =>
        /\ source_ws = src0
        /\ Len(template_ws.value) = Len(tpl0.value)
        /\ \A r \in 1..Len(tpl0.value) : Len(template_ws.value[r]) = Len(tpl0.value[r])
        /\ template_ws.merged = tpl0.merged
        /\ \A rc \in ChangedCells :
              /\ rc[2] = actual_target_col
              /\ rc[2] \in TargetColumns(tpl0)
              /\ \A c \in TargetColumns(tpl0) : rc[2] <= c
              /\ \E m \in Tasks : template_row[m] = rc[1]
              /\ actual_target_col # TEMPLATE_CATEGORY_COL
                    => \E m \in Tasks : rc[1] \in CategoryRows(tpl0, CategoryText[m])
        /\ \A v \in {None, Num(12345), Str(XINZENG)} :
           \A r \in 0..Len(template_ws.value) : \A c \in 0..Len(template_ws.value[1]) :
              (r = 0 \/ c = 0) =>
                  update_template(template_ws, r, c, v) = [ok |-> FALSE, ws |-> template_ws]

\* the run ended with a cell of the target column changed and a found value
\* left unwritten for want of a category row
C10_Witness ==
    /\ pc = "done" /\ BothLoadable
    /\ ChangedCells # {}
    /\ \E m \in Tasks : found[m].value # None /\ template_row[m] = 0
    /\ \E r \in 1..Len(tpl0.value) : <<r, TEMPLATE_CATEGORY_COL>> \notin ChangedCells
                                          /\ <<r, actual_target_col>> \notin ChangedCells

====
